---- MODULE Spec2Model ----
(***************************************************************************)
(* Model of the code-analysis service: the analysis record repository, the *)
(* service that creates a record and detaches the pipeline run, and the    *)
(* pipeline stages with their read-then-write persistence steps.           *)
(***************************************************************************)
EXTENDS Integers, Sequences, FiniteSets, TLC

(***************************************************************************)
(* Values.  Every field value except a timestamp or an id is a string.     *)
(***************************************************************************)
Null == "null"
Unset == "unset"
UnsetTime == 0 - 1

IN_PROGRESS == "IN_PROGRESS"
COMPLETED == "COMPLETED"
ERROR == "ERROR"
CodeAnalysisStatus == {IN_PROGRESS, COMPLETED, ERROR}

\* a check for emptiness only, which lets None through
FalsyEmptyOnly(v) == v \in {"", "[]"}

\* Python truthiness of an optional string or list: None, "" and [] are falsy.
Falsy(v) == v \in {Null, "", "[]"}

\* bounds
MaxRecords == 2
MaxOps == 4
MaxFiles == 2
MaxLines == 2
MaxCallers == 2
MaxClients == 3

Ids == 1..MaxRecords
RepositoryUrl == "https://example.org/repo"

(***************************************************************************)
(* Field sets of the pydantic models and of the stored document.           *)
(***************************************************************************)
Concerns == {"data_model", "routes_interfaces", "business_logic"}

FilesField(c) ==
    CASE c = "data_model" -> "data_model_files"
      [] c = "routes_interfaces" -> "routes_interfaces_files"
      [] c = "business_logic" -> "business_logic_files"

AnalysisField(c) ==
    CASE c = "data_model" -> "data_model_analysis"
      [] c = "routes_interfaces" -> "routes_interfaces_analysis"
      [] c = "business_logic" -> "business_logic_analysis"

\* the optional analysis fields declared by CodeAnalysisCreate
AnalysisFields ==
    {"architecture_documentation", "ingested_repository", "technologies",
     "data_model_files", "data_model_analysis",
     "routes_interfaces_files", "routes_interfaces_analysis",
     "business_logic_files", "business_logic_analysis",
     "product_requirements"}

CodeAnalysisCreateFields ==
    {"repository_url", "status"} \cup AnalysisFields \cup {"created_at", "updated_at"}

CodeAnalysisUpdateFields ==
    {"status"} \cup AnalysisFields \cup {"error", "updated_at"}

CodeAnalysisInDBFields == CodeAnalysisCreateFields \cup {"id"}

\* keys a stored document can carry (the key _id is the index of db)
DocFields == CodeAnalysisCreateFields \cup {"error"}

TimeFields == {"created_at", "updated_at"}

(***************************************************************************)
(* Models.                                                                 *)
(***************************************************************************)
\* CodeAnalysisCreate(repository_url=url, status=st).model_dump(), as stored
\* by insert_one; a key the dump does not have (error) reads as Null.
CodeAnalysisCreate(url, st, now) ==
    [f \in DocFields |->
        CASE f = "repository_url" -> url
          [] f = "status" -> st
          [] f \in TimeFields -> now
          [] OTHER -> Null]

\* CodeAnalysisUpdate(): nothing set; updated_at has a default factory and
\* is unset unless passed.
CodeAnalysisUpdate ==
    [f \in CodeAnalysisUpdateFields |->
        IF f = "updated_at" THEN UnsetTime ELSE Unset]

\* _map_db_to_model: CodeAnalysisInDB(**db_obj) keeps the declared fields
\* only; the stored key error is not a field of CodeAnalysisInDB.
MapDbToModel(id, doc) ==
    [f \in CodeAnalysisInDBFields |-> IF f = "id" THEN id ELSE doc[f]]

(***************************************************************************)
(* Repository.                                                             *)
(***************************************************************************)
\* update_data without the "if v is not None" filter
UpdateDataKeepNone(obj_in) ==
    {f \in CodeAnalysisUpdateFields :
        IF f = "updated_at" THEN obj_in[f] # UnsetTime ELSE obj_in[f] # Unset}

\* the keys of update_data: set in the partial and not None
UpdateData(obj_in) ==
    {f \in CodeAnalysisUpdateFields :
        IF f = "updated_at" THEN obj_in[f] # UnsetTime
        ELSE obj_in[f] \notin {Unset, Null}}

\* replace_one with update_data instead of $set: what the payload does not
\* name is lost
ReplaceFields(doc, obj_in) ==
    [f \in DocFields |->
        IF f \in UpdateData(obj_in) THEN obj_in[f]
        ELSE IF f \in AnalysisFields \cup {"error"} THEN Null
        ELSE doc[f]]

\* update_one({"_id": id}, {"$set": update_data}) on one document
SetFields(doc, obj_in) ==
    [f \in DocFields |-> IF f \in UpdateData(obj_in) THEN obj_in[f] ELSE doc[f]]

\* CodeAnalysisRepository.update on the collection d
RepositoryUpdate(d, id, obj_in) ==
    IF id \in DOMAIN d /\ UpdateData(obj_in) # {}
    THEN [d EXCEPT ![id] = SetFields(d[id], obj_in)]
    ELSE d

\* CodeAnalysisRepository.get of an existing document
RepositoryGet(d, id) == MapDbToModel(id, d[id])

\* CodeAnalysisRepository.create: insert_one assigns a fresh _id
NewId(d) == CHOOSE i \in Ids : i \notin DOMAIN d /\ \A j \in Ids \ DOMAIN d : i <= j

RepositoryCreate(d, obj) ==
    [i \in DOMAIN d \cup {NewId(d)} |-> IF i \in DOMAIN d THEN d[i] ELSE obj]

(***************************************************************************)
(* Pipeline graph: nodes, edges and the state the driver accumulates.      *)
(***************************************************************************)
INGEST == "repository_ingest"
SYNTH == "generate_product_requirements"

IdentifyNode(c) ==
    CASE c = "data_model" -> "identify_data_models"
      [] c = "routes_interfaces" -> "identify_routes_interfaces"
      [] c = "business_logic" -> "identify_business_logic"

AnalyzeNode(c) ==
    CASE c = "data_model" -> "analyze_data_models"
      [] c = "routes_interfaces" -> "analyze_routes_interfaces"
      [] c = "business_logic" -> "analyze_business_logic"

Nodes ==
    {INGEST, SYNTH} \cup {IdentifyNode(c) : c \in Concerns}
        \cup {AnalyzeNode(c) : c \in Concerns}

\* the synthesis node triggered by the data model analysis alone
PredecessorsFirstEdge(n) ==
    IF n = INGEST THEN {}
    ELSE IF n = SYNTH THEN {AnalyzeNode("data_model")}
    ELSE IF \E c \in Concerns : n = IdentifyNode(c) THEN {INGEST}
    ELSE {IdentifyNode(c) : c \in {x \in Concerns : n = AnalyzeNode(x)}}

\* graph.add_edge(a, b): the declared predecessors of each node
Predecessors(n) ==
    IF n = INGEST THEN {}
    ELSE IF n = SYNTH THEN {AnalyzeNode(c) : c \in Concerns}
    ELSE IF \E c \in Concerns : n = IdentifyNode(c) THEN {INGEST}
    ELSE {IdentifyNode(c) : c \in {x \in Concerns : n = AnalyzeNode(x)}}

\* the concerns whose nodes are built by the two factories
FactoryConcerns == {"routes_interfaces", "business_logic"}

\* keys of GraphState (analysis_id is the variable aid)
GraphStateKeys == {"repository_url", "status"} \cup AnalysisFields \cup {"error"}

\* a node's return value: the keys it hands to the driver, others Unset
NoReturn == [k \in GraphStateKeys |-> Unset]

\* the driver merges a returned update into the accumulated state, the last
\* value written to a key winning
MergeState(st, r) == [k \in GraphStateKeys |-> IF r[k] # Unset THEN r[k] ELSE st[k]]

\* a node that returns the CodeAnalysisState object hands over its fields
\* that hold a value
ReturnedModel(st) == [k \in GraphStateKeys |-> IF st[k] # Null THEN st[k] ELSE Unset]

\* initial_state of run_code_analysis_workflow
InitialState(url) ==
    [k \in GraphStateKeys |->
        CASE k = "repository_url" -> url
          [] k = "status" -> IN_PROGRESS
          [] OTHER -> Null]

(***************************************************************************)
(* Error messages of the stages.                                           *)
(***************************************************************************)
AnalysisType(c) ==
    CASE c = "data_model" -> "Data Model"
      [] c = "routes_interfaces" -> "Routes and Interfaces"
      [] c = "business_logic" -> "Business Logic"

IngestFailedMsg == "Repository ingest failed: Repository Ingest API failed"

IdentifyMissingMsg(c) ==
    IF c = "data_model"
    THEN "No ingested repository data available for data model identification"
    ELSE "No ingested_repository data available for " \o FilesField(c)

IdentifyFailedMsg(c) ==
    IF c = "data_model"
    THEN "Data model identification failed: model error"
    ELSE FilesField(c) \o " failed: model error"

AnalyzeMissingMsg(c) ==
    IF c = "data_model"
    THEN "No data model files identified for analysis"
    ELSE "No " \o FilesField(c) \o " data available for " \o AnalysisType(c) \o " analysis"

AnalyzeFailedMsg(c, why) ==
    IF c = "data_model"
    THEN "Data model analysis failed: " \o why
    ELSE AnalysisType(c) \o " analysis failed: " \o why

NoAgentMsg(c) == "No agent available for " \o AnalysisType(c) \o " analysis"

SynthMissingMsg ==
    "Missing one or more required analyses for product requirements generation"

SynthFailedMsg == "Product requirements generation failed: model error"

\* str(update_error) of the service's fallback handler
UpdateErrorMsg == "store rejected the update"

(***************************************************************************)
(* Update payloads the stages build from the document they read.           *)
(***************************************************************************)
\* the loop over valid_fields: copy every field of current_doc that is not
\* skipped, that current_doc has, and whose value is not None
CarryForward(current_doc, skip) ==
    [f \in CodeAnalysisUpdateFields |->
        IF f \notin skip /\ f \in DOMAIN current_doc /\ current_doc[f] # Null
        THEN current_doc[f]
        ELSE CodeAnalysisUpdate[f]]

\* identification_node_factory._update_db_with_result
IdentUpdateDbWithResult(current_doc, result, field_name, now) ==
    [CarryForward(current_doc, {"updated_at", field_name})
        EXCEPT !["updated_at"] = now, ![field_name] = result]

\* analysis_node_factory._update_db_with_result (and product_requirements')
AnalysisUpdateDbWithResult(current_doc, result, field_name, now) ==
    [CarryForward(current_doc, {"updated_at", "status", field_name})
        EXCEPT !["status"] = COMPLETED, !["updated_at"] = now, ![field_name] = result]

\* _update_db_on_error (the same in both factories and product_requirements)
UpdateDbOnError(current_doc, error, now) ==
    [CarryForward(current_doc, {"updated_at", "status", "error"})
        EXCEPT !["status"] = ERROR, !["error"] = error, !["updated_at"] = now]

\* data_model_identification_node / data_model_analysis_node, error paths
DataModelErrorUpdate(current_doc, error, now) ==
    [CodeAnalysisUpdate EXCEPT
        !["status"] = ERROR, !["error"] = error, !["updated_at"] = now,
        !["data_model_files"] = current_doc["data_model_files"],
        !["data_model_analysis"] = current_doc["data_model_analysis"]]

\* data_model_identification_node, success path
DataModelIdentificationUpdate(current_doc, files, now) ==
    [CodeAnalysisUpdate EXCEPT
        !["data_model_files"] = files, !["updated_at"] = now,
        !["data_model_analysis"] = current_doc["data_model_analysis"],
        !["status"] = current_doc["status"]]

\* data_model_analysis_node, success path
DataModelAnalysisUpdate(current_doc, analysis, now) ==
    [CodeAnalysisUpdate EXCEPT
        !["data_model_analysis"] = analysis, !["status"] = COMPLETED,
        !["updated_at"] = now,
        !["data_model_files"] = current_doc["data_model_files"]]

\* repository_ingest_node, success and error paths (no updated_at passed)
IngestUpdate(ingested_repository, technologies) ==
    [CodeAnalysisUpdate EXCEPT
        !["ingested_repository"] = ingested_repository,
        !["technologies"] = technologies]

IngestErrorUpdate == [CodeAnalysisUpdate EXCEPT !["status"] = ERROR]

\* the closing update marking a failed run COMPLETED
WorkflowErrorUpdateCompleted(error) ==
    [CodeAnalysisUpdate EXCEPT !["status"] = COMPLETED, !["error"] = error]

\* run_code_analysis_workflow, the update after the graph returned
WorkflowErrorUpdate(error) ==
    [CodeAnalysisUpdate EXCEPT !["status"] = ERROR, !["error"] = error]

WorkflowCompletedUpdate == [CodeAnalysisUpdate EXCEPT !["status"] = COMPLETED]

\* CodeAnalysisService._run_analysis_workflow, the fallback update
ServiceErrorUpdate == [CodeAnalysisUpdate EXCEPT !["status"] = ERROR]

(***************************************************************************)
(* Outcomes of the external calls.                                         *)
(***************************************************************************)
Fail == "fail"

\* the ingest service: a non-200 response, or a JSON body
IngestResponses ==
    {[ingestedRepository |-> "repo", technologies |-> "[python]"],
     [ingestedRepository |-> Null, technologies |-> "[]"]}

\* the structured model response of an identification stage
FileLists == {"[]", "[a.py]"}

\* what run_analysis_agent returns
AgentResults == {"Error: No response from agent", "## report"}

\* a test for the whole text being the marker
IsError(s) == s = "Error"

\* analysis_result.startswith("Error")
StartsWithError(s) == Len(s) >= 5 /\ SubSeq(s, 1, 5) = "Error"

\* the repo-files call or parse_xml_response failing in data_model_analysis_node
RepoFilesFailed == "Repo Files API failed"

\* job of a node that has not started
NoJob == [kind |-> "none", field |-> "", value |-> Null, error |-> Null, fetch |-> "none"]

OkJob(f, v) == [kind |-> "ok", field |-> f, value |-> v, error |-> Null, fetch |-> "none"]

ErrJob(e) == [kind |-> "err", field |-> "", value |-> Null, error |-> e, fetch |-> "none"]

\* how the retrieval of the file contents from the repo-files service went
\* during the stage: "ok" or "failed" ("none": the stage made no retrieval)
FetchOutcomes == {"ok", "failed"}

Fetched(j, outcome) == [j EXCEPT !.fetch = outcome]

VARIABLES
    db,        \* the collection: _id -> stored document
    clock,     \* utcnow
    svc,       \* position of the request and of the background task
    aid,       \* the analysis the run works on (0: none yet)
    returned,  \* identifier create_code_analysis returned (0: not yet)
    state,     \* the driver's accumulated GraphState
    pc,        \* node -> "idle", "get", "update", "done", "raised"
    job,       \* node -> outcome of the node's own work
    ret,       \* node -> the update it returns to the driver
    upd,       \* node -> the CodeAnalysisUpdate it built
    called,    \* nodes that made their external model or service call
    exc,       \* message of the exception that escaped a node (Null: none)
    last,      \* the latest direct repository call: its number, kind and arguments
    resp,      \* the latest query of the record store and what it answered
    repo_files,     \* the files the repo-files service put into its response
    xml_content,    \* the response text handed to parse_xml_response
    files_content,  \* what parse_xml_response made of it
    mongo      \* the class attributes of MongoDB and the calls made on it

vars == <<db, clock, svc, aid, returned, state, pc, job, ret, upd, called, exc, last,
          resp, repo_files, xml_content, files_content, mongo>>

queryVars == <<resp, repo_files, xml_content, files_content, mongo>>

pipeVars == <<state, pc, job, ret, upd, called, exc>>

\* no query has been made since the last write
NoResp == [op |-> "none"]

\* parse_xml_response has not been called
NotParsed == [kind |-> "none"]

\* no response of the repo-files service
NoBundle == [open |-> FALSE, close |-> FALSE, files |-> <<>>]

\* MongoDB as the class is defined: client = None, db = None, no call made
NoMongo ==
    [client |-> 0, db |-> 0, made |-> 0,
     pinging |-> {}, latest |-> "none", disconnected |-> FALSE, got |-> "none"]

NoCall == [seq |-> 0, op |-> "none", id |-> 0, obj_in |-> CodeAnalysisUpdate]

Init ==
    /\ db = <<>>
    /\ last = NoCall
    /\ clock = 1
    /\ svc = "none"
    /\ aid = 0
    /\ returned = 0
    /\ state = InitialState(Null)
    /\ pc = [n \in Nodes |-> "idle"]
    /\ job = [n \in Nodes |-> NoJob]
    /\ ret = [n \in Nodes |-> NoReturn]
    /\ upd = [n \in Nodes |-> CodeAnalysisUpdate]
    /\ called = {}
    /\ exc = Null
    /\ resp = NoResp
    /\ repo_files = NoBundle
    /\ xml_content = <<>>
    /\ files_content = NotParsed
    /\ mongo = NoMongo

(***************************************************************************)
(* Service: create_code_analysis and the detached task.                    *)
(***************************************************************************)
\* await code_analysis_repository.create(code_analysis_create)
ServiceCreate ==
    /\ svc = "none"
    /\ db' = RepositoryCreate(db, CodeAnalysisCreate(RepositoryUrl, IN_PROGRESS, clock))
    /\ aid' = NewId(db)
    /\ svc' = "created"
    /\ UNCHANGED <<clock, last, queryVars, returned, pipeVars>>

\* the workflow awaited inside the request instead of detached: the task
\* starts and nothing has been returned
ServiceAwaitsWorkflow ==
    /\ svc = "created"
    /\ svc' = "scheduled"
    /\ UNCHANGED <<db, clock, last, queryVars, aid, returned, pipeVars>>

\* asyncio.create_task(...); return code_analysis  (no await in between)
ServiceReturn ==
    /\ svc = "created"
    /\ svc' = "scheduled"
    /\ returned' = aid
    /\ UNCHANGED <<db, clock, last, queryVars, aid, pipeVars>>

\* the task starts: run_code_analysis_workflow builds initial_state
WorkflowStart ==
    /\ svc = "scheduled"
    /\ svc' = "running"
    /\ state' = InitialState(db[aid]["repository_url"])
    /\ UNCHANGED <<db, clock, last, queryVars, aid, returned, pc, job, ret, upd, called, exc>>

(***************************************************************************)
(* Stages.  A stage starts once its declared predecessors are done; its    *)
(* external call, its read of the record and its write of the record are   *)
(* separate steps, so the stages of different branches interleave.         *)
(***************************************************************************)
Ready(n) ==
    /\ svc = "running"
    /\ pc[n] = "idle"
    /\ \A m \in Predecessors(n) : pc[m] = "done"

\* the node n leaves its first step with job j, return value r, update u
Begin(n, to, j, r, u, didCall) ==
    /\ pc' = [pc EXCEPT ![n] = to]
    /\ job' = [job EXCEPT ![n] = j]
    /\ ret' = [ret EXCEPT ![n] = r]
    /\ upd' = [upd EXCEPT ![n] = u]
    /\ called' = IF didCall THEN called \cup {n} ELSE called
    /\ UNCHANGED <<db, clock, last, queryVars, svc, aid, returned, state, exc>>

\* return {"error": error_msg}
ReturnError(e) == [NoReturn EXCEPT !["error"] = e]

\* return {field: value}
ReturnField(f, v) == [NoReturn EXCEPT ![f] = v]

\* state.status = ERROR; state.error = e; return state
ReturnStateError(st, e) == ReturnedModel([st EXCEPT !["status"] = ERROR, !["error"] = e])

\* repository_ingest_node up to its await of repository.update
IngestStart ==
    /\ Ready(INGEST)
    /\ \/ Begin(INGEST, "update", ErrJob(IngestFailedMsg),
                ReturnError(IngestFailedMsg), IngestErrorUpdate, TRUE)
       \/ \E r \in IngestResponses :
             Begin(INGEST, "update",
                   OkJob("ingested_repository", r.ingestedRepository),
                   [NoReturn EXCEPT
                       !["ingested_repository"] = r.ingestedRepository,
                       !["technologies"] = r.technologies],
                   IngestUpdate(r.ingestedRepository, r.technologies), TRUE)

\* identification_node / data_model_identification_node up to the await of
\* repository.get
IdentifyStart(c) ==
    LET n == IdentifyNode(c) IN
    /\ Ready(n)
    /\ IF Falsy(state["ingested_repository"])
       THEN Begin(n, "get", ErrJob(IdentifyMissingMsg(c)),
                  ReturnStateError(state, IdentifyMissingMsg(c)),
                  CodeAnalysisUpdate, FALSE)
       ELSE \/ Begin(n, "get", ErrJob(IdentifyFailedMsg(c)),
                     ReturnStateError(state, IdentifyFailedMsg(c)),
                     CodeAnalysisUpdate, TRUE)
            \/ \E files \in FileLists :
                  Begin(n, "get", OkJob(FilesField(c), files),
                        ReturnedModel([state EXCEPT ![FilesField(c)] = files]),
                        CodeAnalysisUpdate, TRUE)

\* analysis_node -> _handle_analysis with an agent, up to the await of
\* repository.get.  The agent fetches the files with its retrieve_files
\* tool, which hands a failure to the agent as a result instead of raising;
\* what the agent answers is the agent's choice in either case.  The job of
\* a stage that goes on with a result records how the retrieval went.
HandleAnalysis(c) ==
    LET n == AnalyzeNode(c)
        input_files == state[FilesField(c)]
    IN
    /\ Ready(n)
    /\ IF Falsy(input_files)
       THEN Begin(n, "get", ErrJob(AnalyzeMissingMsg(c)),
                  ReturnError(AnalyzeMissingMsg(c)), CodeAnalysisUpdate, FALSE)
       ELSE \E analysis_result \in AgentResults, fetch \in FetchOutcomes :
              IF StartsWithError(analysis_result)
              THEN Begin(n, "get",
                         ErrJob(AnalyzeFailedMsg(c, analysis_result)),
                         ReturnError(AnalyzeFailedMsg(c, analysis_result)),
                         CodeAnalysisUpdate, TRUE)
              ELSE Begin(n, "get",
                         Fetched(OkJob(AnalysisField(c), analysis_result), fetch),
                         ReturnField(AnalysisField(c), analysis_result),
                         CodeAnalysisUpdate, TRUE)

\* _handle_analysis with agent None: ValueError leaves the node; the driver
\* stops the other running nodes and graph.ainvoke raises.  Whether
\* create_analysis_agent failed when the node was built is first observed
\* here, once per run, so the outcome is drawn here.
HandleAnalysisNoAgent(c) ==
    LET n == AnalyzeNode(c) IN
    /\ Ready(n)
    /\ pc' = [pc EXCEPT ![n] = "raised"]
    /\ exc' = NoAgentMsg(c)
    /\ svc' = "wf_except"
    /\ UNCHANGED <<db, clock, last, queryVars, aid, returned, state, job, ret, upd, called>>

\* data_model_analysis_node up to the await of repository.get
DataModelAnalysisStart ==
    LET c == "data_model"
        n == AnalyzeNode(c)
    IN
    /\ Ready(n)
    /\ IF Falsy(state["data_model_files"])
       THEN Begin(n, "get", ErrJob(AnalyzeMissingMsg(c)),
                  ReturnStateError(state, AnalyzeMissingMsg(c)),
                  CodeAnalysisUpdate, FALSE)
       ELSE \/ Begin(n, "get",
                     Fetched(ErrJob(AnalyzeFailedMsg(c, RepoFilesFailed)), "failed"),
                     ReturnStateError(state, AnalyzeFailedMsg(c, RepoFilesFailed)),
                     CodeAnalysisUpdate, TRUE)
            \/ Begin(n, "get",
                     Fetched(OkJob("data_model_analysis", "## report"), "ok"),
                     ReturnedModel([state EXCEPT
                         !["data_model_analysis"] = "## report",
                         !["status"] = COMPLETED]),
                     CodeAnalysisUpdate, TRUE)

\* product_requirements_node without its check of the three analyses
ProductRequirementsNoCheck ==
    /\ Ready(SYNTH)
    /\ Begin(SYNTH, "get", OkJob("product_requirements", "## prd"),
             ReturnField("product_requirements", "## prd"),
             CodeAnalysisUpdate, TRUE)

\* product_requirements_node up to the await of repository.get
ProductRequirementsStart ==
    /\ Ready(SYNTH)
    /\ IF \E c \in Concerns : Falsy(state[AnalysisField(c)])
       THEN Begin(SYNTH, "get", ErrJob(SynthMissingMsg),
                  ReturnError(SynthMissingMsg), CodeAnalysisUpdate, FALSE)
       ELSE \/ Begin(SYNTH, "get", ErrJob(SynthFailedMsg),
                     ReturnError(SynthFailedMsg), CodeAnalysisUpdate, TRUE)
            \/ Begin(SYNTH, "get", OkJob("product_requirements", "## prd"),
                     ReturnField("product_requirements", "## prd"),
                     CodeAnalysisUpdate, TRUE)

\* the CodeAnalysisUpdate node n builds from the document it has just read
BuildUpdate(n, current_doc, j, now) ==
    IF n = IdentifyNode("data_model")
    THEN IF j.kind = "ok"
         THEN DataModelIdentificationUpdate(current_doc, j.value, now)
         ELSE DataModelErrorUpdate(current_doc, j.error, now)
    ELSE IF n = AnalyzeNode("data_model")
    THEN IF j.kind = "ok"
         THEN DataModelAnalysisUpdate(current_doc, j.value, now)
         ELSE DataModelErrorUpdate(current_doc, j.error, now)
    ELSE IF j.kind = "err"
    THEN UpdateDbOnError(current_doc, j.error, now)
    ELSE IF \E c \in FactoryConcerns : n = IdentifyNode(c)
    THEN IdentUpdateDbWithResult(current_doc, j.value, j.field, now)
    ELSE AnalysisUpdateDbWithResult(current_doc, j.value, j.field, now)

\* current_doc = await code_analysis_repository.get(analysis_id), then the
\* update payload is built from it
NodeGet(n) ==
    /\ svc = "running"
    /\ pc[n] = "get"
    /\ upd' = [upd EXCEPT ![n] = BuildUpdate(n, RepositoryGet(db, aid), job[n], clock)]
    /\ pc' = [pc EXCEPT ![n] = "update"]
    /\ UNCHANGED <<db, clock, last, queryVars, svc, aid, returned, state, job, ret, called, exc>>

\* await code_analysis_repository.update(analysis_id, update_data), then the
\* node returns and the driver merges what it returned
NodeUpdate(n) ==
    /\ svc = "running"
    /\ pc[n] = "update"
    /\ db' = RepositoryUpdate(db, aid, upd[n])
    /\ state' = MergeState(state, ret[n])
    /\ pc' = [pc EXCEPT ![n] = "done"]
    /\ ret' = [ret EXCEPT ![n] = NoReturn]
    /\ upd' = [upd EXCEPT ![n] = CodeAnalysisUpdate]
    /\ UNCHANGED <<clock, last, queryVars, svc, aid, returned, job, called, exc>>

(***************************************************************************)
(* run_code_analysis_workflow after graph.ainvoke, and the service's       *)
(* handler.                                                                *)
(***************************************************************************)
FinalUpdate(final_state) ==
    IF ~Falsy(final_state["error"]) THEN WorkflowErrorUpdate(final_state["error"])
    ELSE IF ~Falsy(final_state["product_requirements"]) THEN WorkflowCompletedUpdate
    ELSE CodeAnalysisUpdate

\* the run closed as soon as it started, without awaiting the graph
WorkflowFinalEarly ==
    /\ svc = "running"
    /\ db' = RepositoryUpdate(db, aid, FinalUpdate(state))
    /\ svc' = "finished"
    /\ UNCHANGED <<clock, last, queryVars, aid, returned, pipeVars>>

WorkflowFinal ==
    /\ svc = "running"
    /\ pc[SYNTH] = "done"
    /\ db' = RepositoryUpdate(db, aid, FinalUpdate(state))
    /\ state' = [state EXCEPT !["status"] =
                    IF UpdateData(FinalUpdate(state)) = {} THEN @
                    ELSE FinalUpdate(state)["status"]]
    /\ svc' = "finished"
    /\ UNCHANGED <<clock, last, queryVars, aid, returned, pc, job, ret, upd, called, exc>>

\* except Exception as e: update(status=ERROR, error=str(e)); raise
WorkflowExcept ==
    /\ svc = "wf_except"
    /\ db' = RepositoryUpdate(db, aid, WorkflowErrorUpdate(exc))
    /\ svc' = "svc_except"
    /\ UNCHANGED <<clock, last, queryVars, aid, returned, pipeVars>>

\* the background task ending with the exception instead of handling it
ServiceRaises ==
    /\ svc = "svc_except"
    /\ svc' = "task_raised"
    /\ UNCHANGED <<db, clock, last, queryVars, aid, returned, pipeVars>>

\* _run_analysis_workflow: except Exception: update(status=ERROR)
ServiceExcept ==
    /\ svc = "svc_except"
    /\ db' = RepositoryUpdate(db, aid, ServiceErrorUpdate)
    /\ svc' = "finished"
    /\ UNCHANGED <<clock, last, queryVars, aid, returned, pipeVars>>

\* _run_analysis_workflow: the fallback update itself raises; except
\* Exception as update_error logs it and the task ends
ServiceExceptUpdateFails ==
    /\ svc = "svc_except"
    /\ exc' = UpdateErrorMsg
    /\ svc' = "finished"
    /\ UNCHANGED <<db, clock, last, queryVars, aid, returned, state, pc, job, ret, upd, called>>

Next ==
    \/ ServiceCreate
    \/ ServiceReturn
    \/ WorkflowStart
    \/ IngestStart
    \/ \E c \in Concerns : IdentifyStart(c)
    \/ \E c \in FactoryConcerns : HandleAnalysis(c)
    \/ \E c \in FactoryConcerns : HandleAnalysisNoAgent(c)
    \/ DataModelAnalysisStart
    \/ ProductRequirementsStart
    \/ \E n \in Nodes : NodeGet(n)
    \/ \E n \in Nodes : NodeUpdate(n)
    \/ WorkflowFinal
    \/ WorkflowExcept
    \/ ServiceExcept
    \/ ServiceExceptUpdateFails

Spec == Init /\ [][Next]_vars

\* every step of the run is an awaited call that returns, and the event loop
\* keeps running the tasks that can continue
FairSpec == Spec /\ WF_vars(Next)

(***************************************************************************)
(* The repository called directly, with arbitrary partial updates, on a    *)
(* collection of several records.                                          *)
(***************************************************************************)
PartialValues(f) ==
    CASE f = "status" -> {Unset, Null, COMPLETED, ERROR}
      [] f = "data_model_analysis" -> {Unset, "## report"}
      [] f = "error" -> {Unset, "boom"}
      [] OTHER -> {Unset}

\* CodeAnalysisUpdate objects a caller can pass: a few fields set, possibly
\* to None, updated_at passed or left to its default factory
Partials(now) ==
    {[f \in CodeAnalysisUpdateFields |->
        CASE f = "status" -> st
          [] f = "data_model_analysis" -> dma
          [] f = "error" -> er
          [] f = "updated_at" -> ts
          [] OTHER -> Unset] :
        st \in PartialValues("status"),
        dma \in PartialValues("data_model_analysis"),
        er \in PartialValues("error"),
        ts \in {UnsetTime, now}}

InitRepo ==
    /\ db = <<>>
    /\ last = NoCall
    /\ clock = 1
    /\ svc = "none"
    /\ aid = 0
    /\ returned = 0
    /\ state = InitialState(Null)
    /\ pc = [n \in Nodes |-> "idle"]
    /\ job = [n \in Nodes |-> NoJob]
    /\ ret = [n \in Nodes |-> NoReturn]
    /\ upd = [n \in Nodes |-> CodeAnalysisUpdate]
    /\ called = {}
    /\ exc = Null
    /\ resp = NoResp
    /\ repo_files = NoBundle
    /\ xml_content = <<>>
    /\ files_content = NotParsed
    /\ mongo = NoMongo

\* code_analysis_repository.create(CodeAnalysisCreate(repository_url, status))
RepoCreate ==
    /\ last.seq < MaxOps
    /\ Cardinality(DOMAIN db) < MaxRecords
    /\ db' = RepositoryCreate(db, CodeAnalysisCreate(RepositoryUrl, IN_PROGRESS, clock))
    /\ last' = [seq |-> last.seq + 1, op |-> "create", id |-> NewId(db),
                obj_in |-> CodeAnalysisUpdate]
    /\ clock' = clock + 1
    /\ resp' = NoResp
    /\ UNCHANGED <<svc, aid, returned, pipeVars, repo_files, xml_content, files_content, mongo>>

\* code_analysis_repository.update(analysis_id, obj_in)
RepoUpdate ==
    /\ last.seq < MaxOps
    /\ \E id \in Ids, obj_in \in Partials(clock) :
          /\ db' = RepositoryUpdate(db, id, obj_in)
          /\ last' = [seq |-> last.seq + 1, op |-> "update", id |-> id,
                      obj_in |-> obj_in]
    /\ clock' = clock + 1
    /\ resp' = NoResp
    /\ UNCHANGED <<svc, aid, returned, pipeVars, repo_files, xml_content, files_content, mongo>>

NextRepo == RepoCreate \/ RepoUpdate

SpecRepo == InitRepo /\ [][NextRepo]_vars

(***************************************************************************)
(* Reading the store: repository get and list, the service in front of     *)
(* them, and the HTTP endpoints.                                            *)
(***************************************************************************)
\* an identifier ObjectId() rejects; every member of Ids is well formed
MalformedId == 0 - 1

LookupIds == Ids \cup {MalformedId}

\* how a call ends: an exception, None, or a value
Raised(e) == [exc |-> e, found |-> FALSE]

ReturnedNone == [exc |-> "none", found |-> FALSE]

Returned(v) == [exc |-> "none", found |-> TRUE, value |-> v]

\* get with the two failures of the lookup not told apart
GetRaisesException(d, analysis_id, store_ok) ==
    IF analysis_id = MalformedId \/ ~store_ok THEN Raised("Exception")
    ELSE IF analysis_id \in DOMAIN d THEN Returned(MapDbToModel(analysis_id, d[analysis_id]))
    ELSE ReturnedNone

\* CodeAnalysisRepository.get: ObjectId(analysis_id) is evaluated before
\* find_one is called; store_ok is whether find_one answers
Get(d, analysis_id, store_ok) ==
    IF analysis_id = MalformedId THEN Raised("InvalidId")
    ELSE IF ~store_ok THEN Raised("Exception")
    ELSE IF analysis_id \in DOMAIN d THEN Returned(MapDbToModel(analysis_id, d[analysis_id]))
    ELSE ReturnedNone

\* CodeAnalysisService.get_code_analysis re-raises what the repository raises
ServiceGetCodeAnalysis(d, analysis_id, store_ok) == Get(d, analysis_id, store_ok)

CodeAnalysisResponseFields ==
    {"id", "repository_url", "status"} \cup AnalysisFields \cup TimeFields

\* the keyword arguments get_code_analysis passes to CodeAnalysisResponse
ResponseArguments ==
    {"id", "repository_url", "status", "architecture_documentation",
     "ingested_repository", "technologies", "data_model_files",
     "data_model_analysis", "created_at", "updated_at"}

\* CodeAnalysisResponse(id=code_analysis.id, ...): a field that is not passed
\* takes its default, None
CodeAnalysisResponse(code_analysis) ==
    [f \in CodeAnalysisResponseFields |->
        IF f \in ResponseArguments THEN code_analysis[f] ELSE Null]

HttpError(code) == [code |-> code]

\* GET /code-analysis/{analysis_id}
ApiGetCodeAnalysis(d, analysis_id, store_ok) ==
    LET r == ServiceGetCodeAnalysis(d, analysis_id, store_ok) IN
    IF r.exc = "InvalidId" THEN HttpError(404)
    ELSE IF r.exc # "none" THEN HttpError(500)
    ELSE IF ~r.found THEN HttpError(404)
    ELSE [code |-> 200, body |-> CodeAnalysisResponse(r.value)]

\* GET /code-analysis/{analysis_id}/data-model-analysis
ApiGetDataModelAnalysisText(d, analysis_id, store_ok) ==
    LET r == ServiceGetCodeAnalysis(d, analysis_id, store_ok) IN
    IF r.exc = "InvalidId" THEN HttpError(404)
    ELSE IF r.exc # "none" THEN HttpError(500)
    ELSE IF ~r.found THEN HttpError(404)
    ELSE IF Falsy(r.value["data_model_analysis"]) THEN HttpError(404)
    ELSE [code |-> 200, content |-> r.value["data_model_analysis"]]

\* collection.find(query_filters): a document matches when it has every
\* filtered key with the filtered value
Matches(doc, query_filters) ==
    \A k \in DOMAIN query_filters : doc[k] = query_filters[k]

RECURSIVE SortAscending(_, _)
\* the matching ids by created_at ascending
SortAscending(d, S) ==
    IF S = {} THEN <<>>
    ELSE LET m == CHOOSE i \in S : \A j \in S :
                     \/ d[i]["created_at"] < d[j]["created_at"]
                     \/ d[i]["created_at"] = d[j]["created_at"] /\ i <= j
         IN <<m>> \o SortAscending(d, S \ {m})

RECURSIVE SortDescending(_, _)
\* .sort("created_at", -1): the ids newest first (documents created at the
\* same instant in the order they were inserted)
SortDescending(d, S) ==
    IF S = {} THEN <<>>
    ELSE LET m == CHOOSE i \in S : \A j \in S :
                     \/ d[i]["created_at"] > d[j]["created_at"]
                     \/ d[i]["created_at"] = d[j]["created_at"] /\ i <= j
         IN <<m>> \o SortDescending(d, S \ {m})

\* CodeAnalysisRepository.list
RepositoryList(d, filters) ==
    LET documents == SortDescending(d, {i \in DOMAIN d : Matches(d[i], filters)})
    IN [k \in 1..Len(documents) |-> MapDbToModel(documents[k], d[documents[k]])]

\* CodeAnalysisService.list_code_analyses: a status that is given becomes
\* the filter
ListCodeAnalyses(d, status) ==
    RepositoryList(d, IF status # Null THEN [status |-> status] ELSE <<>>)

\* the payloads of a failing stage and of the synthesis stage
StagePartials(current_doc, now) ==
    {UpdateDbOnError(current_doc, SynthMissingMsg, now),
     AnalysisUpdateDbWithResult(current_doc, "## prd", "product_requirements", now)}

\* a stage's get and update of one record, in one piece
StageUpdate ==
    /\ last.seq < MaxOps
    /\ \E id \in DOMAIN db :
          \E obj_in \in StagePartials(RepositoryGet(db, id), clock) :
             /\ db' = RepositoryUpdate(db, id, obj_in)
             /\ last' = [seq |-> last.seq + 1, op |-> "update", id |-> id,
                         obj_in |-> obj_in]
    /\ clock' = clock + 1
    /\ resp' = NoResp
    /\ UNCHANGED <<svc, aid, returned, pipeVars, repo_files, xml_content, files_content, mongo>>

\* a query leaves everything but resp as it is
Answer(r) ==
    /\ resp' = r
    /\ UNCHANGED <<db, clock, last, svc, aid, returned, pipeVars,
                   repo_files, xml_content, files_content, mongo>>

\* await code_analysis_repository.get(analysis_id)
RepoGet ==
    \E id \in LookupIds, ok \in BOOLEAN :
        Answer([op |-> "get", id |-> id, store_ok |-> ok, out |-> Get(db, id, ok)])

ApiGet ==
    \E id \in LookupIds, ok \in BOOLEAN :
        Answer([op |-> "api_get", id |-> id, store_ok |-> ok,
                out |-> ApiGetCodeAnalysis(db, id, ok)])

ApiGetText ==
    \E id \in LookupIds, ok \in BOOLEAN :
        Answer([op |-> "api_text", id |-> id, store_ok |-> ok,
                out |-> ApiGetDataModelAnalysisText(db, id, ok)])

ServiceList ==
    \E status \in CodeAnalysisStatus \cup {Null} :
        Answer([op |-> "list", status |-> status,
                out |-> ListCodeAnalyses(db, status)])

NextApi ==
    \/ RepoCreate
    \/ StageUpdate
    \/ RepoGet
    \/ ApiGet
    \/ ApiGetText
    \/ ServiceList

SpecApi == InitRepo /\ [][NextApi]_vars

(***************************************************************************)
(* parse_xml_response.  A text is a sequence of symbols: the markers       *)
(* <files>, </files>, <file path=" and </file> are one symbol each, every  *)
(* other symbol is one character.  Positions are Python's: the first       *)
(* symbol is at 0 and find answers -1 when there is no occurrence.         *)
(***************************************************************************)
FILES_OPEN == "<files>"
FILES_CLOSE == "</files>"
FILE_OPEN == "<file path=\""
FILE_CLOSE == "</file>"
NL == "\n"
Digits == {"0", "1", "2", "3"}

Min(S) == CHOOSE x \in S : \A y \in S : x <= y

\* long[a:b] with both bounds between 0 and len(long), or a negative b
Slice(long, a, b) ==
    LET hi == IF b < 0 THEN (IF Len(long) + b < 0 THEN 0 ELSE Len(long) + b)
              ELSE IF b > Len(long) THEN Len(long) ELSE b
        lo == IF a > Len(long) THEN Len(long) ELSE a
    IN IF lo >= hi THEN <<>> ELSE SubSeq(long, lo + 1, hi)

\* long.find(sub)
Find(long, sub) ==
    LET at == {i \in 0..(Len(long) - Len(sub)) :
                  SubSeq(long, i + 1, i + Len(sub)) = sub}
    IN IF at = {} THEN 0 - 1 ELSE Min(at)

RECURSIVE Split(_, _)
\* long.split(sep)
Split(long, sep) ==
    LET i == Find(long, sep) IN
    IF i = 0 - 1 THEN <<long>>
    ELSE <<Slice(long, 0, i)>> \o Split(Slice(long, i + Len(sep), Len(long)), sep)

RECURSIVE Strip(_)
\* line.strip()
Strip(line) ==
    IF line = <<>> THEN line
    ELSE IF Head(line) \in {" ", NL} THEN Strip(Tail(line))
    ELSE IF line[Len(line)] \in {" ", NL} THEN Strip(SubSeq(line, 1, Len(line) - 1))
    ELSE line

\* text.isdigit()
IsDigit(text) == text # <<>> /\ \A i \in 1..Len(text) : text[i] \in Digits

RECURSIVE Join(_, _)
\* sep.join(lines)
Join(lines, sep) ==
    IF lines = <<>> THEN <<>>
    ELSE IF Len(lines) = 1 THEN lines[1]
    ELSE lines[1] \o sep \o Join(Tail(lines), sep)

\* the body of the loop over content.split("\n"), up to lines.append
CleanLine(raw) ==
    LET line == Strip(raw)
        colon_pos == Find(line, <<":", " ">>)
    IN IF colon_pos > 0 /\ IsDigit(Strip(Slice(line, 0, colon_pos)))
       THEN Slice(line, colon_pos + 2, Len(line))
       ELSE line

RECURSIVE CleanLines(_)
\* the loop over the lines of one file: empty lines are not appended
CleanLines(raws) ==
    IF raws = <<>> THEN <<>>
    ELSE (IF Strip(Head(raws)) = <<>> THEN <<>> ELSE <<CleanLine(Head(raws))>>)
            \o CleanLines(Tail(raws))

\* files_content[file_path] = value
Store(files, file_path, value) ==
    [k \in DOMAIN files \cup {file_path} |-> IF k = file_path THEN value ELSE files[k]]

RECURSIVE ParseSections(_, _)
\* the loop over file_sections
ParseSections(file_sections, files) ==
    IF file_sections = <<>> THEN files
    ELSE LET file_section == Head(file_sections)
             header_end == Find(file_section, <<"\"", ">">>)
             file_path == Slice(file_section, 0, header_end)
             content_start == header_end + 2
             content_end == Find(file_section, <<FILE_CLOSE>>)
             content == Slice(file_section, content_start, content_end)
         IN IF content_end = 0 - 1
            THEN ParseSections(Tail(file_sections), files)
            ELSE ParseSections(Tail(file_sections),
                     Store(files, file_path, Join(CleanLines(Split(content, <<NL>>)), <<NL>>)))

ParseError(msg) == [kind |-> "error", message |-> "Failed to parse XML response: " \o msg]

\* parse_xml_response returning whatever it collected, an empty mapping too
parse_xml_response_any(xml) ==
    LET files_start == Find(xml, <<FILES_OPEN>>)
        files_end == Find(xml, <<FILES_CLOSE>>)
        files_text == Slice(xml, files_start, files_end)
    IN IF files_start = 0 - 1 \/ files_end = 0 - 1
       THEN ParseError("Invalid XML format: missing <files> section")
       ELSE [kind |-> "ok",
             files |-> ParseSections(Tail(Split(files_text, <<FILE_OPEN>>)), <<>>)]

parse_xml_response(xml) ==
    LET files_start == Find(xml, <<FILES_OPEN>>)
        files_end == Find(xml, <<FILES_CLOSE>>)
        files_text == Slice(xml, files_start, files_end)
        parsed == ParseSections(Tail(Split(files_text, <<FILE_OPEN>>)), <<>>)
    IN IF files_start = 0 - 1 \/ files_end = 0 - 1
       THEN ParseError("Invalid XML format: missing <files> section")
       ELSE IF DOMAIN parsed = {}
       THEN ParseError("No files could be parsed from the response")
       ELSE [kind |-> "ok", files |-> parsed]

(***************************************************************************)
(* The responses of the repo-files service that parse_xml_response is      *)
(* given: up to MaxFiles file sections between the markers, either marker  *)
(* possibly missing, a section possibly cut short.                         *)
(***************************************************************************)
\* the lines of a file as the service sends them: leading blanks, the line
\* number (none: <<>>) followed by ": ", and the text of the line
SourceLines ==
    {[pad |-> <<>>, number |-> <<"1">>, text |-> <<"x">>],
     [pad |-> <<" ">>, number |-> <<"1", "0">>, text |-> <<" ", "x">>],
     [pad |-> <<>>, number |-> <<"2">>, text |-> <<>>],
     [pad |-> <<>>, number |-> <<"3">>, text |-> <<"x", ":", " ", "x">>],
     [pad |-> <<>>, number |-> <<>>, text |-> <<"x">>]}

RenderLine(l) ==
    l.pad \o (IF l.number # <<>> THEN l.number \o <<":", " ">> ELSE <<>>) \o l.text

Contents == UNION {[1..k -> SourceLines] : k \in 0..MaxLines}

\* the i-th file's path: a, aa, aaa
PathOf(i) == [k \in 1..i |-> "a"]

\* a section is whole, lacks its closing </file>, or lacks the "> that ends
\* its header
Shapes == {"whole", "unclosed", "no_header_end"}

OneLine == <<[pad |-> <<>>, number |-> <<"1">>, text |-> <<"x">>]>>

\* k sections, the v-th with any content and the others with one line
SectionLists(k) ==
    {[i \in 1..k |-> [path |-> PathOf(i), shape |-> sh[i],
                      lines |-> IF i = v THEN c ELSE OneLine]] :
        v \in 1..k, c \in Contents, sh \in [1..k -> Shapes]}

Bundles ==
    {[open |-> o, close |-> c, files |-> fs] :
        o \in BOOLEAN, c \in BOOLEAN,
        fs \in {<<>>} \cup UNION {SectionLists(k) : k \in 1..MaxFiles}}

RenderFile(f) ==
    <<FILE_OPEN>> \o f.path
        \o (IF f.shape # "no_header_end" THEN <<"\"", ">">> ELSE <<>>)
        \o Join([i \in 1..Len(f.lines) |-> RenderLine(f.lines[i])], <<NL>>)
        \o (IF f.shape # "unclosed" THEN <<FILE_CLOSE>> ELSE <<>>)

RECURSIVE Concat(_)
Concat(texts) == IF texts = <<>> THEN <<>> ELSE Head(texts) \o Concat(Tail(texts))

\* the response text: a header line, then the files section
Render(b) ==
    <<"x", NL>>
        \o (IF b.open THEN <<FILES_OPEN>> ELSE <<>>)
        \o Concat([i \in 1..Len(b.files) |-> RenderFile(b.files[i])])
        \o (IF b.close THEN <<FILES_CLOSE>> ELSE <<>>)

InitParse ==
    /\ db = <<>>
    /\ last = NoCall
    /\ clock = 1
    /\ svc = "none"
    /\ aid = 0
    /\ returned = 0
    /\ state = InitialState(Null)
    /\ pc = [n \in Nodes |-> "idle"]
    /\ job = [n \in Nodes |-> NoJob]
    /\ ret = [n \in Nodes |-> NoReturn]
    /\ upd = [n \in Nodes |-> CodeAnalysisUpdate]
    /\ called = {}
    /\ exc = Null
    /\ resp = NoResp
    /\ repo_files \in Bundles
    /\ xml_content = Render(repo_files)
    /\ files_content = NotParsed
    /\ mongo = NoMongo

\* files_content = parse_xml_response(response_text)
ParseXml ==
    /\ files_content = NotParsed
    /\ files_content' = parse_xml_response(xml_content)
    /\ UNCHANGED <<db, clock, last, svc, aid, returned, pipeVars, resp,
                   repo_files, xml_content, mongo>>

NextParse == ParseXml

SpecParse == InitParse /\ [][NextParse]_vars

(***************************************************************************)
(* The process-wide store handle: MongoDB.client and MongoDB.db, and the   *)
(* coroutines calling connect, disconnect and get_collection.  A client is *)
(* a positive number, None is 0.  connect suspends at its await of the     *)
(* ping; the other calls run without suspending.                           *)
(***************************************************************************)
Callers == 1..MaxCallers

appVars == <<db, clock, svc, aid, returned, pipeVars, last,
             resp, repo_files, xml_content, files_content>>

\* connect() returned without raising
ConnectReturned(m) == [m EXCEPT !.latest = "returned", !.disconnected = FALSE]

\* connect() raised
ConnectRaised(m) == [m EXCEPT !.latest = "raised", !.disconnected = FALSE]

\* connect up to the await: if cls.client is not None: return;
\* cls.client = AsyncIOMotorClient(...); await cls.client.admin.command("ping")
connect(c) ==
    /\ c \notin mongo.pinging
    /\ IF mongo.client # 0
       THEN mongo' = ConnectReturned(mongo)
       ELSE /\ mongo.made < MaxClients
            /\ mongo' = [mongo EXCEPT !.client = mongo.made + 1,
                                      !.made = mongo.made + 1,
                                      !.pinging = @ \cup {c}]
    /\ UNCHANGED appVars

\* the ping answered: cls.db = cls.client[settings.MONGODB_DB_NAME], which
\* raises TypeError (logged and re-raised) when cls.client is None by now
connect_ping_ok(c) ==
    /\ c \in mongo.pinging
    /\ mongo' = IF mongo.client = 0
                THEN ConnectRaised([mongo EXCEPT !.pinging = @ \ {c}])
                ELSE ConnectReturned([mongo EXCEPT !.pinging = @ \ {c},
                                                   !.db = mongo.client])
    /\ UNCHANGED appVars

\* the ping raised: except Exception: log; raise  (cls.client is left as set)
connect_ping_fails(c) ==
    /\ c \in mongo.pinging
    /\ mongo' = ConnectRaised([mongo EXCEPT !.pinging = @ \ {c}])
    /\ UNCHANGED appVars

\* disconnect: if cls.client is None: return; close; client = None; db = None
disconnect ==
    /\ mongo' = IF mongo.client = 0
                THEN [mongo EXCEPT !.disconnected = TRUE]
                ELSE [mongo EXCEPT !.client = 0, !.db = 0, !.disconnected = TRUE]
    /\ UNCHANGED appVars

\* what get_collection does on the handle m: RuntimeError("MongoDB
\* connection not established") if cls.db is None, else cls.db[name]
GetCollection(m) == IF m.db = 0 THEN "raised" ELSE "collection"

get_collection ==
    /\ mongo' = [mongo EXCEPT !.got = GetCollection(mongo)]
    /\ UNCHANGED appVars

NextMongo ==
    \/ \E c \in Callers : connect(c)
    \/ \E c \in Callers : connect_ping_ok(c)
    \/ \E c \in Callers : connect_ping_fails(c)
    \/ disconnect
    \/ get_collection

SpecMongo == Init /\ [][NextMongo]_vars

(***************************************************************************)
(* Properties.                                                             *)
(***************************************************************************)
HasRec == aid \in DOMAIN db

IdentifyNodes == {IdentifyNode(c) : c \in Concerns}

AnalyzeNodes == {AnalyzeNode(c) : c \in Concerns}

\* the data fields the stages produce
DataFields == AnalysisFields \ {"architecture_documentation"}

\* C1: create_code_analysis inserts exactly one record, with status
\* IN_PROGRESS and every analysis field null, and has returned that record's
\* identifier before any stage starts or writes: while the request is between
\* the insert and the start of the detached task the record is untouched and
\* every stage is idle, and the task only runs once the identifier has been
\* returned.
C1_CreateReturnsFreshRecord ==
    /\ svc = "none" => (DOMAIN db = {} /\ returned = 0)
    /\ svc \in {"created", "scheduled"} =>
          /\ DOMAIN db = {aid}
          /\ db[aid]["status"] = IN_PROGRESS
          /\ \A f \in AnalysisFields \cup {"error"} : db[aid][f] = Null
          /\ \A n \in Nodes : pc[n] = "idle"
    /\ svc = "created" => returned = 0
    /\ svc \notin {"none", "created"} => returned = aid

C1_Witness ==
    /\ svc = "scheduled"
    /\ returned = aid
    /\ HasRec
    /\ db[aid]["status"] = IN_PROGRESS
    /\ db[aid]["repository_url"] = RepositoryUrl

\* a field of the partial that is explicitly set and not None
Named(obj_in, f) ==
    IF f = "updated_at" THEN obj_in[f] # UnsetTime
    ELSE obj_in[f] # Unset /\ obj_in[f] # Null

\* C2: repository.update(id, partial) changes exactly the fields that are
\* set and non-null in partial, on the record id only: every other field of
\* that record and every other record keep their values, and no record
\* appears or disappears.
C2_UpdateTouchesOnlyNamedFields ==
    [][(last'.seq # last.seq /\ last'.op = "update") =>
          /\ DOMAIN db' = DOMAIN db
          /\ \A i \in DOMAIN db : \A f \in DocFields :
                db'[i][f] =
                    IF i = last'.id /\ f \in CodeAnalysisUpdateFields
                          /\ Named(last'.obj_in, f)
                    THEN last'.obj_in[f]
                    ELSE db[i][f]]_vars

\* {status: COMPLETED} applied to a record whose data_model_analysis is set,
\* next to a second record
C2_Witness ==
    /\ last.op = "update"
    /\ last.id \in DOMAIN db
    /\ last.obj_in = [CodeAnalysisUpdate EXCEPT !["status"] = COMPLETED]
    /\ db[last.id]["status"] = COMPLETED
    /\ db[last.id]["data_model_analysis"] = "## report"
    /\ Cardinality(DOMAIN db) = 2

\* C3: once a data field of the stored record is non-null no later write
\* changes it, under every interleaving of the stages' reads and writes; and
\* when the three branches have finished the record holds the output of
\* every stage that succeeded.
C3_DataFieldsStableAndMerged ==
    /\ [][HasRec =>
            \A f \in DataFields :
                db[aid][f] # Null => db'[aid][f] = db[aid][f]]_vars
    /\ []((\A n \in AnalyzeNodes : pc[n] = "done") =>
            \A n \in Nodes :
                (pc[n] = "done" /\ job[n].kind = "ok") =>
                    db[aid][job[n].field] = job[n].value)

\* a stage is about to write a payload it built before a sibling's field
\* landed in the record
C3_Witness ==
    /\ HasRec
    /\ \E n \in Nodes : \E c \in Concerns :
          /\ pc[n] = "update"
          /\ n \notin {IdentifyNode(c), AnalyzeNode(c)}
          /\ upd[n][FilesField(c)] = Unset
          /\ db[aid][FilesField(c)] = "[a.py]"

\* C4: the stored status never goes from ERROR or COMPLETED back to
\* IN_PROGRESS.
C4_NoReturnToInProgress ==
    [][(HasRec /\ db[aid]["status"] \in {ERROR, COMPLETED}) =>
            db'[aid]["status"] # IN_PROGRESS]_vars

\* C5: a stored status of COMPLETED implies that the three concern analyses
\* and product_requirements are all non-null.
C5_CompletedImpliesAllOutputs ==
    (HasRec /\ db[aid]["status"] = COMPLETED) =>
        /\ \A c \in Concerns : db[aid][AnalysisField(c)] # Null
        /\ db[aid]["product_requirements"] # Null

\* C6: COMPLETED and ERROR are terminal: a stored COMPLETED never becomes
\* ERROR and a stored ERROR never becomes COMPLETED.
C6_TerminalStatuses ==
    [][HasRec =>
          /\ db[aid]["status"] = COMPLETED => db'[aid]["status"] # ERROR
          /\ db[aid]["status"] = ERROR => db'[aid]["status"] # COMPLETED]_vars

\* C7: a non-null stored error implies that the stored status is ERROR.
C7_ErrorOnlyWithErrorStatus ==
    (HasRec /\ db[aid]["error"] # Null) => db[aid]["status"] = ERROR

\* C8: a stored status of ERROR is accompanied by a non-null error message.
C8_ErrorStatusHasMessage ==
    (HasRec /\ db[aid]["status"] = ERROR) => db[aid]["error"] # Null
IngestFailed == job[INGEST].kind = "err"

ErrorRecorded ==
    /\ HasRec
    /\ db[aid]["status"] = ERROR
    /\ db[aid]["error"] # Null

\* C9 as stated: after a failed ingest the record eventually has status ERROR
\* and a non-null error, and no identification stage is ever invoked.
C9_NoIdentifyAfterFailedIngest ==
    /\ IngestFailed ~> ErrorRecorded
    /\ [](IngestFailed => \A n \in IdentifyNodes : pc[n] = "idle")

\* C9 amended: after a failed ingest the record eventually has status ERROR
\* and a non-null error, and no identification stage makes its model call:
\* each one that runs short-circuits with its missing-input error.
C9_IdentifyShortCircuitsAfterFailedIngest ==
    /\ IngestFailed ~> ErrorRecorded
    /\ [](IngestFailed =>
            \A c \in Concerns :
                /\ IdentifyNode(c) \notin called
                /\ pc[IdentifyNode(c)] # "idle" =>
                      job[IdentifyNode(c)] = ErrJob(IdentifyMissingMsg(c)))

C9_Witness ==
    /\ IngestFailed
    /\ \A n \in IdentifyNodes : pc[n] = "done"
    /\ ErrorRecorded
    /\ called = {INGEST}

\* the error messages that name the business logic concern
MentionsBusinessLogic(e) ==
    e \in {IdentifyMissingMsg("business_logic"), IdentifyFailedMsg("business_logic"),
           AnalyzeMissingMsg("business_logic"), NoAgentMsg("business_logic")}
             \cup {AnalyzeFailedMsg("business_logic", r) : r \in AgentResults}

\* a finished run whose data_model branch succeeded and whose business_logic
\* analysis short-circuited on its missing file list
DataModelOkBusinessLogicMissing ==
    /\ svc = "finished"
    /\ \A n \in {IdentifyNode("data_model"), AnalyzeNode("data_model")} :
          pc[n] = "done" /\ job[n].kind = "ok"
    /\ pc[AnalyzeNode("business_logic")] = "done"
    /\ job[AnalyzeNode("business_logic")] = ErrJob(AnalyzeMissingMsg("business_logic"))

\* C10 as stated: in such a run the final record has a non-null
\* data_model_analysis, a non-null error that mentions business logic, and
\* status ERROR.
C10_FinalErrorMentionsBusinessLogic ==
    DataModelOkBusinessLogicMissing =>
        /\ db[aid]["data_model_analysis"] # Null
        /\ db[aid]["error"] # Null
        /\ MentionsBusinessLogic(db[aid]["error"])
        /\ db[aid]["status"] = ERROR

\* C10 amended: in such a run the final record has a non-null
\* data_model_analysis, status ERROR and a non-null error, which is the
\* message of the last failure of the run: the synthesis stage's
\* missing-analyses message, or the message of the exception that escaped an
\* analysis stage without an agent.
C10_FinalErrorIsLastFailure ==
    DataModelOkBusinessLogicMissing =>
        /\ db[aid]["data_model_analysis"] # Null
        /\ db[aid]["error"] # Null
        /\ db[aid]["error"] \in {SynthMissingMsg, NoAgentMsg("routes_interfaces")}
        /\ db[aid]["status"] = ERROR

C10_Witness ==
    /\ DataModelOkBusinessLogicMissing
    /\ pc[SYNTH] = "done"
    /\ db[aid]["data_model_analysis"] = "## report"
    /\ db[aid]["error"] = SynthMissingMsg
    /\ db[aid]["status"] = ERROR
\* a stage of the run emitted an error, or an exception left a stage
StageEmittedError == (\E n \in Nodes : job[n].kind = "err") \/ exc # Null

\* C11: when a run has finished, the stored status is ERROR if any stage
\* emitted an error, whatever the other stages wrote before or after it; and
\* the stored status is COMPLETED only if no stage emitted an error and
\* product_requirements was produced.
C11_FinalStatusReflectsErrors ==
    (svc = "finished") =>
        /\ StageEmittedError => db[aid]["status"] = ERROR
        /\ db[aid]["status"] = COMPLETED =>
              /\ ~StageEmittedError
              /\ job[SYNTH] = OkJob("product_requirements", "## prd")
              /\ db[aid]["product_requirements"] = "## prd"

\* a finished run in which one branch failed and a sibling analysis, which
\* writes COMPLETED, succeeded
C11_Witness ==
    /\ svc = "finished"
    /\ job[IdentifyNode("routes_interfaces")].kind = "err"
    /\ job[AnalyzeNode("data_model")].kind = "ok"
    /\ pc[SYNTH] = "done"
    /\ db[aid]["status"] = ERROR

\* C12: no stage lets an exception escape into the graph driver: a stage
\* that fails writes an ERROR update and returns an error-only result, so no
\* stage is ever left by an exception and the run is never aborted.
C12_NoExceptionEscapesStage ==
    /\ \A n \in Nodes : pc[n] # "raised"
    /\ svc \notin {"wf_except", "svc_except"}

\* C13: when an exception has escaped the pipeline run the background task
\* handles it and ends without raising, and once it has ended the record has
\* status ERROR unless the store rejected the fallback write.
C13_ServiceFallbackWritesError ==
    /\ [][svc = "svc_except" => svc' = "finished"]_vars
    /\ []((svc = "finished" /\ exc # Null) =>
            (exc # UpdateErrorMsg => db[aid]["status"] = ERROR))

\* the task ended after an analysis stage without an agent raised, and the
\* store accepted the fallback write
C13_Witness ==
    /\ svc = "finished"
    /\ exc = NoAgentMsg("business_logic")
    /\ pc[AnalyzeNode("business_logic")] = "raised"
    /\ db[aid]["status"] = ERROR
\* the HTTP get endpoints
ApiGetOps == {"api_get", "api_text"}

\* C14: a repository lookup with a malformed identifier raises the
\* invalid-identifier error, which no other lookup raises and which differs
\* from the not-found result None; the HTTP get endpoints answer 404 to a
\* malformed identifier and to a missing record, and 500 exactly when the
\* lookup failed in another way.
C14_MalformedIdIsNotFound ==
    /\ resp.op = "get" =>
          /\ (resp.id = MalformedId) <=> (resp.out.exc = "InvalidId")
          /\ (resp.out.exc = "none" /\ ~resp.out.found) <=>
                (resp.id # MalformedId /\ resp.store_ok /\ resp.id \notin DOMAIN db)
    /\ resp.op \in ApiGetOps =>
          /\ (resp.id = MalformedId \/ (resp.store_ok /\ resp.id \notin DOMAIN db)) =>
                resp.out.code = 404
          /\ (resp.out.code = 500) <=> (resp.id # MalformedId /\ ~resp.store_ok)

\* the endpoint answered 404 to a malformed identifier while a record exists
C14_Witness ==
    /\ resp.op = "api_get"
    /\ resp.id = MalformedId
    /\ resp.out.code = 404
    /\ DOMAIN db # {}

\* C15: GET /code-analysis/{id} of an existing record returns every field of
\* the projection with its stored value, so a field that is non-null in the
\* store is never returned as null.
C15_GetReturnsStoredFields ==
    (resp.op = "api_get" /\ resp.out.code = 200) =>
        \A f \in CodeAnalysisResponseFields :
            resp.out.body[f] = IF f = "id" THEN resp.id ELSE db[resp.id][f]

\* C16: whenever the error field is stored for a record, the record returned
\* by repository get and by the HTTP get endpoint carries that error
\* message.
C16_GetCarriesError ==
    /\ (resp.op = "get" /\ resp.out.found /\ db[resp.id]["error"] # Null) =>
          /\ "error" \in DOMAIN resp.out.value
          /\ resp.out.value["error"] = db[resp.id]["error"]
    /\ (resp.op = "api_get" /\ resp.out.code = 200 /\ db[resp.id]["error"] # Null) =>
          /\ "error" \in DOMAIN resp.out.body
          /\ resp.out.body["error"] = db[resp.id]["error"]

\* C17: a repository.update that writes at least one field sets updated_at
\* to the time of that write, whether or not the partial names updated_at;
\* a partial with no non-null set field changes nothing.
C17_UpdateRefreshesUpdatedAt ==
    [][(last'.seq # last.seq /\ last'.op = "update" /\ last'.id \in DOMAIN db) =>
          IF UpdateData(last'.obj_in) # {}
          THEN db'[last'.id]["updated_at"] = clock
          ELSE db' = db]_vars

\* the records a listing with the status filter st has to return
Listed(st) == {i \in DOMAIN db : st = Null \/ db[i]["status"] = st}

\* C18: a listing with a status filter returns exactly the records whose
\* stored status equals the filter, a listing without a filter returns all
\* records, each once and as stored, and the result is ordered by created_at
\* descending.
C18_ListFiltersAndSorts ==
    resp.op = "list" =>
        /\ {resp.out[k]["id"] : k \in DOMAIN resp.out} = Listed(resp.status)
        /\ Len(resp.out) = Cardinality(Listed(resp.status))
        /\ \A k \in DOMAIN resp.out :
              resp.out[k] = MapDbToModel(resp.out[k]["id"], db[resp.out[k]["id"]])
        /\ \A k \in DOMAIN resp.out : \A l \in DOMAIN resp.out :
              k < l => resp.out[k]["created_at"] >= resp.out[l]["created_at"]

\* a listing filtered by ERROR returned one of two records
C18_Witness ==
    /\ resp.op = "list"
    /\ resp.status = ERROR
    /\ Len(resp.out) = 1
    /\ Cardinality(DOMAIN db) = 2
    /\ \E i \in DOMAIN db : db[i]["status"] # ERROR
\* every section of the bundle is whole, both markers are there
WellFormed(b) ==
    /\ b.open /\ b.close
    /\ Len(b.files) >= 1
    /\ \A i \in 1..Len(b.files) : b.files[i].shape = "whole"

\* a line with its line-number marker removed
Unnumbered(l) == IF l.number # <<>> THEN l.text ELSE RenderLine(l)

\* C19: for a bundle of n well-formed sections with distinct paths,
\* parse_xml_response returns a mapping with exactly those n paths as keys,
\* in which every line that carried an "N: " marker is the text after the
\* marker, whatever that text is, and every other line is as it was.
C19_ParseStripsLineNumbers ==
    (files_content.kind # "none" /\ WellFormed(repo_files)) =>
        /\ files_content.kind = "ok"
        /\ DOMAIN files_content.files =
              {repo_files.files[i].path : i \in 1..Len(repo_files.files)}
        /\ \A i \in 1..Len(repo_files.files) :
              LET f == repo_files.files[i] IN
              files_content.files[f.path] =
                  Join([k \in 1..Len(f.lines) |-> Unnumbered(f.lines[k])], <<NL>>)

\* a section from which a file is extracted: it has its closing </file>
Extractable(b) == \E i \in 1..Len(b.files) : b.files[i].shape # "unclosed"

\* C20: parse_xml_response fails with a parse error exactly when <files> or
\* </files> is absent or no file was extracted from the sections, and
\* returns a non-empty mapping in every other case.
C20_ParseFailsExactlyWhenNothingToReturn ==
    files_content.kind # "none" =>
        /\ (files_content.kind = "error") <=>
              (~repo_files.open \/ ~repo_files.close \/ ~Extractable(repo_files))
        /\ files_content.kind = "ok" => DOMAIN files_content.files # {}

\* both markers present, two sections, neither closed: nothing is extracted
\* and the parse fails
C20_Witness ==
    /\ files_content.kind = "error"
    /\ repo_files.open /\ repo_files.close
    /\ Len(repo_files.files) = 2
    /\ xml_content[Len(xml_content)] = FILES_CLOSE
\* the sections of the bundle that have both their header end and their
\* closing marker
WholeSections(b) == {i \in 1..Len(b.files) : b.files[i].shape = "whole"}

\* C21: in a bundle with both <files> markers a section without its closing
\* </file> or without the "> that ends its path attribute is skipped: the
\* returned mapping has exactly the paths of the well-formed sections as its
\* keys (and the parse fails when there is none).
C21_MalformedSectionsAreSkipped ==
    (files_content.kind # "none" /\ repo_files.open /\ repo_files.close) =>
        IF WholeSections(repo_files) = {}
        THEN files_content.kind = "error"
        ELSE /\ files_content.kind = "ok"
             /\ DOMAIN files_content.files =
                   {repo_files.files[i].path : i \in WholeSections(repo_files)}
\* the edges of the graph, as pairs <<from, to>>
DeclaredEdges ==
    {<<"repository_ingest", "identify_data_models">>,
     <<"repository_ingest", "identify_routes_interfaces">>,
     <<"repository_ingest", "identify_business_logic">>,
     <<"identify_data_models", "analyze_data_models">>,
     <<"identify_routes_interfaces", "analyze_routes_interfaces">>,
     <<"identify_business_logic", "analyze_business_logic">>,
     <<"analyze_data_models", "generate_product_requirements">>,
     <<"analyze_routes_interfaces", "generate_product_requirements">>,
     <<"analyze_business_logic", "generate_product_requirements">>}

\* C22: in a run a stage starts only when every stage with an edge to it
\* has completed, and it runs at most once: a stage that has started never
\* starts again and a stage that has ended stays ended.
C22_StagesRunOnceAfterPredecessors ==
    [][\A n \in Nodes :
          /\ (pc[n] = "idle" /\ pc'[n] # "idle") =>
                \A e \in DeclaredEdges : e[2] = n => pc[e[1]] = "done"
          /\ pc[n] # "idle" => pc'[n] # "idle"
          /\ pc[n] = "update" => pc'[n] \in {"update", "done"}
          /\ pc[n] \in {"done", "raised"} => pc'[n] = pc[n]]_vars

\* the synthesis stage has started, after three analyses of which one failed
C22_Witness ==
    /\ pc[SYNTH] = "get"
    /\ \A n \in AnalyzeNodes : pc[n] = "done"
    /\ job[AnalyzeNode("routes_interfaces")].kind = "err"
    /\ job[AnalyzeNode("business_logic")].kind = "ok"
\* the agent texts that begin with the marker "Error"
ErrorTexts == {"Error: No response from agent"}

\* C27: an analyze stage built by the factory treats the agent's text as a
\* failure exactly when it begins with "Error": then the stage returns only
\* an error, the concern's analysis field is not written and the stage's
\* write sets the stored status to ERROR; any other text is returned and
\* stored unchanged as the concern's analysis.
C27_ErrorMarkerMeansFailure ==
    /\ [](\A c \in FactoryConcerns :
            LET n == AnalyzeNode(c) IN
            (n \in called /\ pc[n] # "idle") =>
                \/ /\ job[n].kind = "err"
                   /\ \E t \in ErrorTexts : job[n].error = AnalyzeFailedMsg(c, t)
                   /\ pc[n] \in {"get", "update"} => ret[n] = ReturnError(job[n].error)
                   /\ db[aid][AnalysisField(c)] = Null
                \/ /\ job[n].kind = "ok"
                   /\ job[n].value \in AgentResults \ ErrorTexts
                   /\ pc[n] \in {"get", "update"} =>
                         ret[n] = ReturnField(AnalysisField(c), job[n].value)
                   /\ pc[n] = "done" => db[aid][AnalysisField(c)] = job[n].value)
    /\ [][\A c \in FactoryConcerns :
            LET n == AnalyzeNode(c) IN
            (n \in called /\ job[n].kind = "err" /\ pc[n] = "update" /\ pc'[n] = "done") =>
                /\ db'[aid]["status"] = ERROR
                /\ db'[aid]["error"] = job[n].error]_vars

\* the business logic agent answered with an "Error" text and the stage has
\* recorded its failure
C27_Witness ==
    LET n == AnalyzeNode("business_logic") IN
    /\ pc[n] = "done"
    /\ n \in called
    /\ job[n].error = AnalyzeFailedMsg("business_logic", "Error: No response from agent")
    /\ db[aid]["business_logic_analysis"] = Null
    /\ db[aid]["error"] = job[n].error
    /\ db[aid]["status"] = ERROR

\* C28: when the repo-files bundle cannot be fetched or parsed during an
\* analyze stage, that stage fails: it ends with an error and the concern's
\* analysis field is not written.
C28_FetchFailureFailsTheStage ==
    \A c \in Concerns :
        LET n == AnalyzeNode(c) IN
        (pc[n] = "done" /\ job[n].fetch = "failed") =>
            /\ job[n].kind = "err"
            /\ db[aid][AnalysisField(c)] = Null
\* the state fields a stage requires before it makes its call
RequiredInputs(n) ==
    IF n = SYNTH THEN {AnalysisField(c) : c \in Concerns}
    ELSE IF n \in IdentifyNodes THEN {"ingested_repository"}
    ELSE {FilesField(c) : c \in {x \in Concerns : n = AnalyzeNode(x)}}

\* C23: a stage makes its model or agent call if and only if every required
\* input is present and non-empty in the state it receives; otherwise it
\* makes no call, returns only an error field, and its write records status
\* ERROR with that error.
C23_CallIffInputPresent ==
    [][\A n \in Nodes \ {INGEST} :
          /\ (pc[n] = "idle" /\ pc'[n] # "idle") =>
                /\ (n \in called') <=> (\A k \in RequiredInputs(n) : ~Falsy(state[k]))
                /\ n \notin called' =>
                      /\ job'[n].kind = "err"
                      /\ ret'[n] = ReturnError(job'[n].error)
          /\ (n \notin called /\ pc[n] = "update" /\ pc'[n] = "done") =>
                /\ db'[aid]["status"] = ERROR
                /\ db'[aid]["error"] = job[n].error]_vars

\* the fields a stage changes: its outputs when it succeeded, error when it
\* failed
OwnFields(n) ==
    IF job[n].kind = "err" THEN {"error"}
    ELSE IF n = INGEST THEN {"ingested_repository", "technologies"}
    ELSE IF n = SYNTH THEN {"product_requirements"}
    ELSE IF n \in IdentifyNodes
    THEN {FilesField(c) : c \in {x \in Concerns : n = IdentifyNode(x)}}
    ELSE {AnalysisField(c) : c \in {x \in Concerns : n = AnalyzeNode(x)}}

\* C24: what a stage returns to the driver holds only the fields it
\* changed: no stage returns status, a sibling's field or any other field
\* it only read.
C24_StagesReturnOnlyOwnFields ==
    \A n \in Nodes :
        pc[n] \in {"get", "update"} =>
            {k \in GraphStateKeys : ret[n][k] # Unset} \subseteq OwnFields(n)
\* C25: in a stored record a non-null product_requirements implies that all
\* three concern analyses are non-null in the same record; the synthesis
\* call is never made, and its output never stored, while one is missing.
C25_SynthesisNeedsAllAnalyses ==
    HasRec =>
        /\ db[aid]["product_requirements"] # Null =>
              \A c \in Concerns : db[aid][AnalysisField(c)] # Null
        /\ SYNTH \in called =>
              \A c \in Concerns :
                  /\ ~Falsy(state[AnalysisField(c)])
                  /\ db[aid][AnalysisField(c)] # Null

C25_Witness ==
    /\ HasRec
    /\ pc[SYNTH] = "done"
    /\ SYNTH \in called
    /\ db[aid]["product_requirements"] = "## prd"
    /\ \A c \in Concerns : db[aid][AnalysisField(c)] = "## report"

\* C26: in a stored record and for each concern X, a non-null X_analysis
\* implies a non-null X_files, and a non-null X_files implies a non-null
\* ingested_repository: an output is stored only after the stage producing
\* its required input has succeeded and stored its own output.
C26_OutputsFollowTheirInputs ==
    HasRec =>
        \A c \in Concerns :
            /\ db[aid][AnalysisField(c)] # Null => db[aid][FilesField(c)] # Null
            /\ db[aid][FilesField(c)] # Null => db[aid]["ingested_repository"] # Null

C26_Witness ==
    /\ HasRec
    /\ db[aid]["business_logic_analysis"] # Null
    /\ db[aid]["business_logic_files"] # Null
    /\ db[aid]["ingested_repository"] # Null
    /\ db[aid]["routes_interfaces_files"] # Null
    /\ db[aid]["routes_interfaces_analysis"] = Null
    /\ pc[AnalyzeNode("routes_interfaces")] = "done"
\* C29: when every external call returns and the store accepts writes,
\* every started pipeline run terminates and leaves the stored status at
\* COMPLETED or ERROR: no run ends with the record still IN_PROGRESS,
\* whichever stages failed and however the branches interleave.
C29_RunsEndInATerminalStatus ==
    /\ (svc = "running") ~> (svc = "finished")
    /\ [](svc = "finished" => db[aid]["status"] \in {COMPLETED, ERROR})

C29_Witness ==
    /\ svc = "finished"
    /\ job[INGEST].kind = "ok"
    /\ job[AnalyzeNode("data_model")].kind = "err"
    /\ job[AnalyzeNode("business_logic")].kind = "ok"
    /\ job[SYNTH].kind = "err"
    /\ db[aid]["status"] = ERROR
\* C30: after any sequence of connect and disconnect calls on the store
\* handle, failed connects included, the client is set exactly when the
\* database handle is set, so whenever the latest connect() returned without
\* raising and no disconnect() followed, get_collection returns a collection
\* instead of raising; a connect() while already connected keeps the
\* existing handle.  (Stated for the moments when no connect is suspended.)
C30_HandleIsConsistent ==
    /\ [](mongo.pinging = {} =>
            /\ (mongo.client # 0) <=> (mongo.db # 0)
            /\ (mongo.latest = "returned" /\ ~mongo.disconnected) =>
                  GetCollection(mongo) = "collection")
    /\ [][(mongo.client # 0 /\ mongo.db # 0 /\ mongo'.client # 0)
          => (mongo'.client = mongo.client /\ mongo'.db = mongo.db)]_vars
====
